---- MODULE Spec2Model ----
(***************************************************************************)
(* Multi-site connection and request-dispatch layer of the WordPress MCP   *)
(* server: the site registry (WordPressManager), the authenticated client  *)
(* (WordPressClient) of the stdio edition (wordpress_mcp.py) and of the    *)
(* HTTPS edition (wordpress_mcp_https.py), and tool handlers of both main  *)
(* modules and of additional_wordpress_tools.py.                           *)
(*                                                                         *)
(* Python values are modelled as follows.  An Optional[...] parameter is a *)
(* set: {} is None and {v} is the value v.  A dict that keeps insertion    *)
(* order is a sequence of [key, cfg] pairs.  A message string built with   *)
(* an f-string is a record of the kind of message (named after the error   *)
(* taxonomy) and of the values interpolated into it.                       *)
(***************************************************************************)
EXTENDS Integers, Sequences, FiniteSets, TLC

VARIABLES
    edition,     \* which main module runs: "stdio" or "https"
    clients,     \* WordPressManager.clients: the site registry
    load_status, \* how load_config ended: "absent", "failed" or "ok"
    workers,     \* the tool invocations that may be in progress at once
    pc,          \* per invocation: "idle", "await" (suspended in a request), "done"
    call,        \* per invocation: the handler called and its arguments
    resolved,    \* per invocation: what get_site_id gave, if it was called
    session,     \* per invocation: the client's httpx session: "none", "open", "closed"
    closes,      \* per invocation: how many times aclose() ran on the session
    client,      \* per invocation: the WordPressClient built by get_client
    reqs,        \* per invocation: the outbound requests sent so far
    last_resp,   \* per invocation: the outcome of the latest request
    result       \* per invocation: what the handler gave to its caller

vars == <<edition, clients, load_status, workers, pc, call, resolved, session,
          closes, client, reqs, last_resp, result>>

-----------------------------------------------------------------------------
(* Bounds of the model *)

MaxSites == 2     \* entries of the configuration file
MaxId == 1        \* largest resource identifier a caller passes

Procs == {"p1", "p2"}
SiteIds == {"blog", "b"}
UnknownSiteId == "zz"
Names == {"My Blog"}
Urls == {"https://example.org"}

-----------------------------------------------------------------------------
(* Optional values and Python truthiness *)

Nothing == {}
Some(v) == {v}
Val(o) == CHOOSE v \in o : TRUE

\* `if site:` on an Optional[str]: None and "" are falsy
TruthyStr(o) == o # {} /\ o # {""}
\* `if user_id:` on an Optional[int]: None and 0 are falsy
TruthyInt(o) == o # {} /\ o # {0}

-----------------------------------------------------------------------------
(* Messages, endpoints, payloads *)

\* Every record constructor of this module lists its fields in the order in
\* which their names first occur in the module, which is the order TLC keeps
\* records in: values bound by the quantifiers of Next are shared between
\* TLC's workers and must not need reordering.

NoEndpoint == [path |-> "", id |-> {}]
Endpoint(path, id) == [path |-> path, id |-> id]

Msg(kind, site, endpoint, status, detail, available) ==
    [kind |-> kind, site |-> site, endpoint |-> endpoint, status |-> status,
     detail |-> detail, available |-> available]
NoMsg == Msg("none", "", NoEndpoint, 0, "", <<>>)
SimpleMsg(kind, detail) == Msg(kind, "", NoEndpoint, 0, detail, <<>>)

NoPayload == [form |-> "none", body |-> "none"]
Payload(form, body) == [form |-> form, body |-> body]

\* The outcome of a call that either returns a value or raises
Ok(v) == [ok |-> TRUE, value |-> v, err |-> NoMsg]
Raise(m) == [ok |-> FALSE, value |-> "", err |-> m]
OkPayload(pl) == [ok |-> TRUE, value |-> pl, err |-> NoMsg]
RaisePayload(m) == [ok |-> FALSE, value |-> NoPayload, err |-> m]

-----------------------------------------------------------------------------
(* The site registry *)

AuthMethodValues == {"app-password", "basic-auth"}

WordPressConfig(id, name, site_url, username, app_password, auth_method) ==
    [id |-> id, name |-> name, site_url |-> site_url, username |-> username,
     app_password |-> app_password, auth_method |-> auth_method]

Keys(d) == [i \in 1..Len(d) |-> d[i].key]
KeySet(d) == {d[i].key : i \in 1..Len(d)}
HasKey(d, k) == k \in KeySet(d)
Lookup(d, k) == d[CHOOSE i \in 1..Len(d) : d[i].key = k].cfg

\* d[k] = v on a dict: an existing key keeps its place, a new key goes last
DictSet(d, k, v) ==
    IF HasKey(d, k)
    THEN [i \in 1..Len(d) |-> IF d[i].key = k THEN [key |-> k, cfg |-> v] ELSE d[i]]
    ELSE Append(d, [key |-> k, cfg |-> v])

\* load_config storing each config under its display name
StoreSite_by_name(acc, e) ==
    DictSet(acc, e.name,
            WordPressConfig(e.id, e.name, e.site_url, e.username, e.app_password,
                            IF e.auth_method = {} THEN "app-password"
                            ELSE Val(e.auth_method)))

\* One iteration of the loop of load_config: build the config, store it under its id
StoreSite(acc, e) ==
    DictSet(acc, e.id,
            WordPressConfig(e.id, e.name, e.site_url, e.username, e.app_password,
                            IF e.auth_method = {} THEN "app-password"
                            ELSE Val(e.auth_method)))

\* site_data["id"], site_config["WORDPRESS_..."] raise KeyError on a missing key;
\* AuthMethod(value) raises ValueError on an unsupported value
EntryLoads(e) ==
    /\ e.complete
    /\ (e.auth_method = {} \/ Val(e.auth_method) \in AuthMethodValues)

RECURSIVE LoadSites(_, _)
LoadSites(sites, acc) ==
    IF sites = <<>> THEN [clients |-> acc, status |-> "ok"]
    ELSE IF ~EntryLoads(Head(sites)) THEN [clients |-> acc, status |-> "failed"]
    ELSE LoadSites(Tail(sites), StoreSite(acc, Head(sites)))

load_config(file) ==
    IF ~file.exists THEN [clients |-> <<>>, status |-> "absent"]
    ELSE IF ~file.parses THEN [clients |-> <<>>, status |-> "failed"]
    ELSE LoadSites(file.sites, <<>>)

\* get_site_id that picks the first site when several are configured
get_site_id_guess(cl, site) ==
    IF TruthyStr(site)
    THEN IF ~HasKey(cl, Val(site))
         THEN Raise(Msg("UnknownSite", Val(site), NoEndpoint, 0, "", Keys(cl)))
         ELSE Ok(Val(site))
    ELSE IF Len(cl) = 0
         THEN Raise(Msg("NoSitesConfigured", "", NoEndpoint, 0, "", <<>>))
         ELSE Ok(Keys(cl)[1])

\* get_site_id that asks for a selector whenever one is omitted
get_site_id_strict(cl, site) ==
    IF TruthyStr(site)
    THEN IF ~HasKey(cl, Val(site))
         THEN Raise(Msg("UnknownSite", Val(site), NoEndpoint, 0, "", Keys(cl)))
         ELSE Ok(Val(site))
    ELSE IF Len(cl) = 0
         THEN Raise(Msg("NoSitesConfigured", "", NoEndpoint, 0, "", <<>>))
         ELSE Raise(Msg("AmbiguousSite", "", NoEndpoint, 0, "", Keys(cl)))

\* get_site_id that looks at the size of the registry before the selector
get_site_id_size_first(cl, site) ==
    IF Len(cl) = 0
    THEN Raise(Msg("NoSitesConfigured", "", NoEndpoint, 0, "", <<>>))
    ELSE IF TruthyStr(site)
    THEN IF ~HasKey(cl, Val(site))
         THEN Raise(Msg("UnknownSite", Val(site), NoEndpoint, 0, "", Keys(cl)))
         ELSE Ok(Val(site))
    ELSE IF Len(cl) = 1
         THEN Ok(Keys(cl)[1])
         ELSE Raise(Msg("AmbiguousSite", "", NoEndpoint, 0, "", Keys(cl)))

\* get_site_id that tests `if site is not None`: "" is looked up as an id
get_site_id_empty_is_id(cl, site) ==
    IF site # {}
    THEN IF ~HasKey(cl, Val(site))
         THEN Raise(Msg("UnknownSite", Val(site), NoEndpoint, 0, "", Keys(cl)))
         ELSE Ok(Val(site))
    ELSE IF Len(cl) = 0
         THEN Raise(Msg("NoSitesConfigured", "", NoEndpoint, 0, "", <<>>))
         ELSE IF Len(cl) = 1
              THEN Ok(Keys(cl)[1])
              ELSE Raise(Msg("AmbiguousSite", "", NoEndpoint, 0, "", Keys(cl)))

\* get_site_id that, asked without a selector, looks for the one site that
\* uses an application password
get_site_id_by_method(cl, site) ==
    IF TruthyStr(site)
    THEN IF ~HasKey(cl, Val(site))
         THEN Raise(Msg("UnknownSite", Val(site), NoEndpoint, 0, "", Keys(cl)))
         ELSE Ok(Val(site))
    ELSE IF Len(cl) = 0
         THEN Raise(Msg("NoSitesConfigured", "", NoEndpoint, 0, "", <<>>))
         ELSE IF Cardinality({i \in 1..Len(cl) : cl[i].cfg.auth_method = "app-password"}) = 1
              THEN Ok(cl[CHOOSE i \in 1..Len(cl) : cl[i].cfg.auth_method = "app-password"].key)
              ELSE Raise(Msg("AmbiguousSite", "", NoEndpoint, 0, "", Keys(cl)))

get_site_id(cl, site) ==
    IF TruthyStr(site)
    THEN IF ~HasKey(cl, Val(site))
         THEN Raise(Msg("UnknownSite", Val(site), NoEndpoint, 0, "", Keys(cl)))
         ELSE Ok(Val(site))
    ELSE IF Len(cl) = 0
         THEN Raise(Msg("NoSitesConfigured", "", NoEndpoint, 0, "", <<>>))
         ELSE IF Len(cl) = 1
              THEN Ok(Keys(cl)[1])
              ELSE Raise(Msg("AmbiguousSite", "", NoEndpoint, 0, "", Keys(cl)))

-----------------------------------------------------------------------------
(* Validation and formatting helpers *)

\* stdio edition: int(value) <= 0 raises ValueError, which the function's own
\* `except (ValueError, TypeError)` turns into ValueError("Invalid <name>: ...");
\* HTTPS edition: value <= 0 raises ValueError("<name> must be a positive integer")
validate_positive_int(ed, value, name) ==
    IF value <= 0
    THEN [ok |-> FALSE, value |-> value,
          err |-> Msg("InvalidArgument", "", NoEndpoint, 0, name, <<>>)]
    ELSE [ok |-> TRUE, value |-> value, err |-> NoMsg]

\* What a handler gives to its caller
Result(ret, status, message, data) ==
    [status |-> status, ret |-> ret, message |-> message, data |-> data]
NoResult == Result("none", "none", NoMsg, NoPayload)
\* format_response({"status": "error", "message": str(e)})
ErrorEnvelope(m) == Result("string", "error", m, NoPayload)
\* an exception that leaves the handler
Raised(m) == Result("raised", "none", m, NoPayload)

\* A handler without its try/except
HandlerBoundary_reraise(err) == Raised(err)

\* The `except Exception as e:` clause that closes every handler.  CancelledError
\* derives from BaseException, so the clause does not catch it.
HandlerBoundary(err) ==
    IF err.kind = "CancelledError" THEN Raised(err) ELSE ErrorEnvelope(err)

\* json.dumps of the HTTPS edition's format_response has no default=, so an
\* httpx.Response inside the data raises TypeError; the stdio edition's
\* format_response passes default=str and serializes anything
format_response(ed, status, data) ==
    IF ed = "https" /\ data.form = "Response"
    THEN [ok |-> FALSE, value |-> NoResult,
          err |-> SimpleMsg("TypeError", "Object of type Response is not JSON serializable")]
    ELSE [ok |-> TRUE, value |-> Result("string", status, NoMsg, data), err |-> NoMsg]

-----------------------------------------------------------------------------
(* The remote side: what one outbound request can come back with *)

Statuses == {200, 400, 401, 403, 404, 500}
Is2xx(s) == s >= 200 /\ s < 300
\* a JSON object with an "id" field, a JSON object with a "message" field,
\* a JSON array, a body that is not JSON
Bodies == {"object_id", "object_msg", "array", "invalid"}

HttpResponse(status, ctype_json, body, id) ==
    [id |-> id, status |-> status, body |-> body, ctype_json |-> ctype_json,
     t |-> "http", cause |-> ""]
\* The content type and the id of the body are read on 2xx responses only
Responses ==
    {r \in [id : 0..MaxId, status : Statuses, body : Bodies, ctype_json : BOOLEAN,
            t : {"http"}, cause : {""}] :
        /\ (r.body = "object_id") = (r.id > 0)
        /\ ~Is2xx(r.status) => r.ctype_json}

TransportCauses == {"timeout", "connect"}
TransportError(cause) ==
    [id |-> 0, status |-> 0, body |-> "none", ctype_json |-> FALSE,
     t |-> "transport", cause |-> cause]
Cancellation ==
    [id |-> 0, status |-> 0, body |-> "none", ctype_json |-> FALSE,
     t |-> "cancel", cause |-> "CancelledError"]
NoResponse ==
    [id |-> 0, status |-> 0, body |-> "none", ctype_json |-> FALSE,
     t |-> "none", cause |-> ""]

-----------------------------------------------------------------------------
(* The authenticated client *)

\* WordPressClient.__init__: the client keeps a reference to the registry's
\* config object.  The HTTPS edition builds httpx.BasicAuth here, from the
\* values the config holds now, the same way for both auth methods.
WordPressClient(ed, key, cfg) ==
    [auth |-> IF ed = "https" THEN <<cfg.username, cfg.app_password>> ELSE <<"", "">>,
     config_key |-> key, config_id |-> cfg.id]
NoClient == [auth |-> <<"", "">>, config_key |-> "", config_id |-> ""]

\* WordPressManager.get_client
get_client(ed, cl, site_id) ==
    IF ~HasKey(cl, site_id)
    THEN [ok |-> FALSE, value |-> NoClient,
          err |-> Msg("UnknownSite", site_id, NoEndpoint, 0, "", Keys(cl))]
    ELSE [ok |-> TRUE, value |-> WordPressClient(ed, site_id, Lookup(cl, site_id)),
          err |-> NoMsg]

\* _get_auth that sends the secret with the application-password method only
get_auth_by_method(ed, cl, c) ==
    IF ed = "stdio"
    THEN <<Lookup(cl, c.config_key).username,
           IF Lookup(cl, c.config_key).auth_method = "app-password"
           THEN Lookup(cl, c.config_key).app_password ELSE "">>
    ELSE c.auth

\* stdio edition: _get_auth reads the config object when the request is sent
get_auth(ed, cl, c) ==
    IF ed = "stdio"
    THEN <<Lookup(cl, c.config_key).username, Lookup(cl, c.config_key).app_password>>
    ELSE c.auth

\* The session is opened by __init__ (stdio) or by __aenter__ (HTTPS), both run
\* by `async with wp_manager.get_client(site_id) as client:`
aenter(s) == "open"
\* __aexit__ that closes the session on the normal exit path only
aexit_on_success(s, exc) == IF exc THEN s ELSE "closed"

\* __aexit__ runs aclose() whatever the exit path
aexit(s, exc) == "closed"

\* WordPressClient.request of the stdio edition, given what came back
request_stdio(c, endpoint, o) ==
    IF o.t = "cancel" THEN RaisePayload(SimpleMsg("CancelledError", ""))
    ELSE IF o.t = "transport"
    THEN RaisePayload(Msg("TransportFailure", "", NoEndpoint, 0, o.cause, <<>>))
    ELSE IF Is2xx(o.status)
    THEN IF o.ctype_json
         THEN IF o.body = "invalid"
              \* response.json() raises inside the try, `except Exception` catches it
              THEN RaisePayload(Msg("TransportFailure", "", NoEndpoint, 0,
                                    "JSONDecodeError", <<>>))
              ELSE OkPayload(Payload("json", o.body))
         ELSE OkPayload(Payload("content", o.body))
    ELSE IF o.status = 401
    THEN RaisePayload(Msg("AuthenticationFailed", c.config_id, NoEndpoint, 0, "", <<>>))
    ELSE IF o.status = 403
    THEN RaisePayload(Msg("PermissionDenied", c.config_id, NoEndpoint, 0, "", <<>>))
    ELSE IF o.status = 404
    THEN RaisePayload(Msg("ResourceNotFound", "", endpoint, 0, "", <<>>))
    ELSE RaisePayload(Msg("RemoteAPIError", "", NoEndpoint, o.status,
                          IF o.body = "object_msg" THEN "remote message" ELSE "str(e)",
                          <<>>))

\* WordPressClient.request of the HTTPS edition: httpx's own exceptions leave it
\* as they are, a 2xx response is returned undecoded
request_https(c, endpoint, o) ==
    IF o.t = "cancel" THEN RaisePayload(SimpleMsg("CancelledError", ""))
    ELSE IF o.t = "transport"
    THEN RaisePayload(Msg("httpx.TransportError", "", NoEndpoint, 0, o.cause, <<>>))
    ELSE IF Is2xx(o.status)
    THEN OkPayload(Payload("Response", o.body))
    ELSE RaisePayload(Msg("httpx.HTTPStatusError", c.config_id, endpoint, o.status,
                          "", <<>>))

request(ed, c, endpoint, o) ==
    IF ed = "stdio" THEN request_stdio(c, endpoint, o) ELSE request_https(c, endpoint, o)

\* response.json() of an httpx.Response, called by the HTTPS edition's handlers
response_json(pl) ==
    IF pl.body = "invalid"
    THEN RaisePayload(SimpleMsg("JSONDecodeError", ""))
    ELSE OkPayload(Payload("json", pl.body))

-----------------------------------------------------------------------------
(* Tool handlers *)

DefaultPerPage == 10

\* The arguments of a call.  Parameters a handler does not have keep the value
\* they have here; per_page, search, status, title and content are parameters
\* of the list, create and update handlers.
Args(site, id, auth_method, username, password) ==
    [id |-> id, site |-> site, status |-> {}, username |-> username,
     auth_method |-> auth_method, password |-> password, per_page |-> DefaultPerPage,
     search |-> {}, title |-> {}, content |-> {}]
ListArgs(site, per_page, search, status) ==
    [id |-> {}, site |-> site, status |-> status, username |-> "",
     auth_method |-> "", password |-> "", per_page |-> per_page,
     search |-> search, title |-> {}, content |-> {}]
PostArgs(site, id, title, content) ==
    [id |-> id, site |-> site, status |-> {}, username |-> "",
     auth_method |-> "", password |-> "", per_page |-> DefaultPerPage,
     search |-> {}, title |-> title, content |-> content]
Call(op, a) == [op |-> op, args |-> a]
NoCall == Call("none", Args({}, {}, "", "", ""))

NotResolved == [ok |-> FALSE, value |-> "", err |-> NoMsg, called |-> FALSE]
Resolution(r) == [ok |-> r.ok, value |-> r.value, err |-> r.err, called |-> TRUE]

\* What the part of a handler before `async with` comes to: an exception (err),
\* a value returned without a client (early), or the site to open a client for
Pre(res, err, early, cl) == [clients |-> cl, resolved |-> res, err |-> err, early |-> early]

\* The params= (query) or json= (body) dict of a request: a field that is
\* {} is a key the dict does not have, {v} is the key with value v
Query(per_page, page, order, orderby, search, status, post_type) ==
    [status |-> status, per_page |-> per_page, search |-> search, title |-> {},
     content |-> {}, page |-> page, order |-> order, orderby |-> orderby,
     post_type |-> post_type]
JsonBody(title, content, status) ==
    [status |-> status, per_page |-> {}, search |-> {}, title |-> title,
     content |-> content, page |-> {}, order |-> {}, orderby |-> {},
     post_type |-> {}]
NoParams == JsonBody({}, {}, {})

\* What the body of `async with` does next: send a request, return, or raise
SendWith(method, endpoint, pr) ==
    [result |-> NoResult, endpoint |-> endpoint, err |-> NoMsg, method |-> method,
     do |-> "send", params |-> pr]
Send(method, endpoint) == SendWith(method, endpoint, NoParams)
Return(res) ==
    [result |-> res, endpoint |-> NoEndpoint, err |-> NoMsg, method |-> "",
     do |-> "return", params |-> NoParams]
Fail(err) ==
    [result |-> NoResult, endpoint |-> NoEndpoint, err |-> err, method |-> "",
     do |-> "raise", params |-> NoParams]
Formatted(fr) == IF fr.ok THEN Return(fr.value) ELSE Fail(fr.err)

\* The stdio edition's WordPressClient has the method request only; get, post,
\* put and delete exist in the HTTPS edition's client alone
client_has_get(ed) == ed = "https"
NoGetAttribute == SimpleMsg("AttributeError", "'WordPressClient' object has no attribute 'get'")

\* The prefix shared by most handlers: site_id = wp_manager.get_site_id(site)
resolve_only(cl, a) ==
    LET r == get_site_id(cl, a.site)
    IN  Pre(Resolution(r), r.err, NoResult, cl)

\* wp_get_post, both editions: get_site_id, then validate_positive_int(post_id)
wp_get_post_pre(ed, cl, a) ==
    LET r == get_site_id(cl, a.site)
        v == validate_positive_int(ed, Val(a.id), "post_id")
    IN  IF ~r.ok THEN Pre(Resolution(r), r.err, NoResult, cl)
        ELSE IF ~v.ok THEN Pre(Resolution(r), v.err, NoResult, cl)
        ELSE Pre(Resolution(r), NoMsg, NoResult, cl)

wp_get_post_body(ed, a, k, got, o) ==
    IF k = 0 THEN Send("GET", Endpoint("/posts/{post_id}", a.id))
    ELSE IF ~got.ok THEN Fail(got.err)
    ELSE IF ed = "stdio" THEN Formatted(format_response(ed, "payload", got.value))
    ELSE LET post == response_json(got.value)
         IN  IF ~post.ok THEN Fail(post.err)
             ELSE Formatted(format_response(ed, "success", post.value))

\* wp_get_comment of additional_wordpress_tools.py: no validation of id
wp_get_comment_body(ed, a, k, got, o) ==
    IF k = 0
    THEN IF client_has_get(ed) THEN Send("GET", Endpoint("/comments/{id}", a.id))
         ELSE Fail(NoGetAttribute)
    ELSE IF ~got.ok THEN Fail(got.err)
    ELSE Formatted(format_response(ed, "none", got.value))

\* wp_get_application_passwords.  stdio edition: user_id is validated only under
\* `if user_id:`.  HTTPS edition: no user_id parameter, the current user is
\* looked up first and its id used for the second request.
wp_get_application_passwords_pre(ed, cl, a) ==
    LET r == get_site_id(cl, a.site)
    IN  IF ~r.ok THEN Pre(Resolution(r), r.err, NoResult, cl)
        ELSE IF ed = "stdio" /\ TruthyInt(a.id)
                /\ ~validate_positive_int(ed, Val(a.id), "user_id").ok
        THEN Pre(Resolution(r), validate_positive_int(ed, Val(a.id), "user_id").err,
                 NoResult, cl)
        ELSE Pre(Resolution(r), NoMsg, NoResult, cl)

wp_get_application_passwords_body(ed, a, k, got, o) ==
    IF ed = "stdio"
    THEN IF k = 0
         THEN IF TruthyInt(a.id)
              THEN Send("GET", Endpoint("/users/{user_id}/application-passwords", a.id))
              ELSE Send("GET", Endpoint("/users/me/application-passwords", {}))
         ELSE IF ~got.ok THEN Fail(got.err)
         ELSE Formatted(format_response(ed, "payload", got.value))
    ELSE IF k = 0 THEN Send("GET", Endpoint("/users/me", {}))
    ELSE IF ~got.ok THEN Fail(got.err)
    ELSE LET js == response_json(got.value)
         IN  IF ~js.ok THEN Fail(js.err)
             ELSE IF k = 1
             THEN IF js.value.body = "object_id"  \* user["id"]
                  THEN Send("GET", Endpoint("/users/{user_id}/application-passwords",
                                            {o.id}))
                  ELSE Fail(SimpleMsg(IF js.value.body = "array" THEN "TypeError"
                                      ELSE "KeyError", "id"))
             ELSE Formatted(format_response(ed, "success", js.value))

\* wp_get_auth_status.  stdio edition: the request runs in an inner try whose
\* `except Exception` turns a failure into auth_status "failed".
wp_get_auth_status_body(ed, a, k, got, o) ==
    IF k = 0 THEN Send("GET", Endpoint("/", {}))
    ELSE IF got.ok
    THEN Return(Result("string", "none", NoMsg, Payload("auth_status", "active")))
    ELSE IF ed = "stdio" /\ got.err.kind # "CancelledError"
    THEN Return(Result("string", "none", got.err, Payload("auth_status", "failed")))
    ELSE Fail(got.err)

SwitchMethods == {"app-password", "basic-auth"}
InvalidMethod == SimpleMsg("InvalidArgument", "auth_method")

\* a switch that files the new credentials as a site of their own
update_credentials_as_new_site(cl, key, username, password, method) ==
    DictSet(cl, username, [Lookup(cl, key) EXCEPT !.username = username,
                                                  !.app_password = password,
                                                  !.auth_method = method])

\* a switch that is seen after its first assignment: the username alone is new
update_credentials_username_only(cl, key, username, password, method) ==
    DictSet(cl, key, [Lookup(cl, key) EXCEPT !.username = username])

\* a switch that stores the new username and method and keeps the old secret
update_credentials_keep_secret(cl, key, username, password, method) ==
    DictSet(cl, key, [Lookup(cl, key) EXCEPT !.username = username,
                                             !.auth_method = method])

\* config.username = ...; config.app_password = ...; config.auth_method = ...
\* on the registry's own config object (stdio edition)
update_credentials(cl, key, username, password, method) ==
    DictSet(cl, key, [Lookup(cl, key) EXCEPT !.username = username,
                                             !.app_password = password,
                                             !.auth_method = method])
\* config.auth_method = AuthMethod(method) (HTTPS edition)
update_method(cl, key, method) ==
    DictSet(cl, key, [Lookup(cl, key) EXCEPT !.auth_method = method])

\* wp_switch_auth_method of the stdio edition that tests the new values
\* without storing them
wp_switch_auth_method_pre_no_store(ed, cl, a) ==
    LET r == get_site_id(cl, a.site)
    IN  IF ed = "stdio"
        THEN IF a.auth_method \notin SwitchMethods
             THEN Pre(NotResolved, InvalidMethod, NoResult, cl)
             ELSE IF ~r.ok THEN Pre(Resolution(r), r.err, NoResult, cl)
             ELSE Pre(Resolution(r), NoMsg, NoResult, cl)
        ELSE IF ~r.ok THEN Pre(Resolution(r), r.err, NoResult, cl)
             ELSE IF a.auth_method \notin SwitchMethods
             THEN Pre(Resolution(r), InvalidMethod, NoResult, cl)
             ELSE Pre(Resolution(r), NoMsg,
                      Result("string", "success", NoMsg, Payload("switched", a.auth_method)),
                      update_method(cl, r.value, a.auth_method))

\* wp_switch_auth_method that stores the new values as soon as the site is
\* resolved and checks auth_method afterwards
wp_switch_auth_method_pre_store_first(ed, cl, a) ==
    LET r == get_site_id(cl, a.site)
    IN  IF ~r.ok THEN Pre(Resolution(r), r.err, NoResult, cl)
        ELSE IF a.auth_method \notin SwitchMethods
        THEN Pre(Resolution(r), InvalidMethod, NoResult,
                 IF ed = "stdio"
                 THEN update_credentials(cl, r.value, a.username, a.password,
                                         a.auth_method)
                 ELSE update_method(cl, r.value, a.auth_method))
        ELSE IF ed = "stdio"
        THEN Pre(Resolution(r), NoMsg, NoResult,
                 update_credentials(cl, r.value, a.username, a.password,
                                    a.auth_method))
        ELSE Pre(Resolution(r), NoMsg,
                 Result("string", "success", NoMsg, Payload("switched", a.auth_method)),
                 update_method(cl, r.value, a.auth_method))

\* wp_switch_auth_method.  stdio edition: check auth_method, resolve, store the
\* new values, then test them with a request.  HTTPS edition: resolve, check
\* method, store the method, return.
wp_switch_auth_method_pre(ed, cl, a) ==
    LET r == get_site_id(cl, a.site)
    IN  IF ed = "stdio"
        THEN IF a.auth_method \notin SwitchMethods
             THEN Pre(NotResolved, InvalidMethod, NoResult, cl)
             ELSE IF ~r.ok THEN Pre(Resolution(r), r.err, NoResult, cl)
             ELSE Pre(Resolution(r), NoMsg, NoResult,
                      update_credentials(cl, r.value, a.username, a.password,
                                         a.auth_method))
        ELSE IF ~r.ok THEN Pre(Resolution(r), r.err, NoResult, cl)
             ELSE IF a.auth_method \notin SwitchMethods
             THEN Pre(Resolution(r), InvalidMethod, NoResult, cl)
             ELSE Pre(Resolution(r), NoMsg,
                      Result("string", "success", NoMsg, Payload("switched", a.auth_method)),
                      update_method(cl, r.value, a.auth_method))

wp_switch_auth_method_body(ed, a, k, got, o) ==
    IF k = 0 THEN Send("GET", Endpoint("/", {}))
    ELSE IF ~got.ok THEN Fail(got.err)
    ELSE Return(Result("string", "success", NoMsg, Payload("switched", a.auth_method)))

\* wp_get_site_health that counts the posts before the users
wp_get_site_health_body_posts_first(ed, a, k, got, o) ==
    IF k = 0
    THEN IF client_has_get(ed) THEN Send("GET", Endpoint("/settings", {}))
         ELSE Fail(NoGetAttribute)
    ELSE IF ~got.ok THEN Fail(got.err)
    ELSE IF k = 1
    THEN SendWith("GET", Endpoint("/posts", {}), Query({1}, {}, {}, {}, {}, {}, {}))
    ELSE IF k = 2
    THEN SendWith("GET", Endpoint("/users", {}), Query({1}, {}, {}, {}, {}, {}, {}))
    ELSE IF got.value.form = "Response"
    THEN Fail(SimpleMsg("AttributeError", "'Response' object has no attribute 'get'"))
    ELSE Return(Result("string", "healthy", NoMsg, got.value))

\* wp_get_site_health of additional_wordpress_tools.py: three requests in a row,
\* then settings.get(...), which an httpx.Response does not have
wp_get_site_health_body(ed, a, k, got, o) ==
    IF k = 0
    THEN IF client_has_get(ed) THEN Send("GET", Endpoint("/settings", {}))
         ELSE Fail(NoGetAttribute)
    ELSE IF ~got.ok THEN Fail(got.err)
    ELSE IF k = 1
    THEN SendWith("GET", Endpoint("/users", {}), Query({1}, {}, {}, {}, {}, {}, {}))
    ELSE IF k = 2
    THEN SendWith("GET", Endpoint("/posts", {}), Query({1}, {}, {}, {}, {}, {}, {}))
    ELSE IF got.value.form = "Response"
    THEN Fail(SimpleMsg("AttributeError", "'Response' object has no attribute 'get'"))
    ELSE Return(Result("string", "healthy", NoMsg, got.value))

\* wp_get_plugins of additional_wordpress_tools.py: the request and the
\* formatting of its result run in an inner try with a bare `except:`
Simulated == Result("string", "simulated", NoMsg, NoPayload)
wp_get_plugins_body(ed, a, k, got, o) ==
    IF k = 0
    THEN IF client_has_get(ed) THEN Send("GET", Endpoint("/plugins", {}))
         ELSE Return(Simulated)
    ELSE IF ~got.ok THEN Return(Simulated)
    ELSE IF format_response(ed, "none", got.value).ok
    THEN Return(format_response(ed, "none", got.value).value)
    ELSE Return(Simulated)

\* The page-size cap of the list handlers: "per_page": min(per_page, 100)
MaxPerPage == 100
Min(a, b) == IF a < b THEN a ELSE b

\* a filter that is sent as an empty string when the caller gives none
IfTruthy_or_empty(o) == IF TruthyStr(o) THEN o ELSE {""}

\* `if search: params["search"] = search`: None and "" leave the key out
IfTruthy(o) == IF TruthyStr(o) THEN o ELSE {}
\* an update that tests `if title:` as the list and create handlers do
IfNotNone_truthy(o) == IF TruthyStr(o) THEN o ELSE {}

\* `if title is not None: data["title"] = title`: only None leaves the key out
IfNotNone(o) == o

NoFieldsToUpdate ==
    SimpleMsg("InvalidArgument", "At least one field must be provided to update")

\* wp_list_posts.  stdio edition: get_site_id only; the query carries
\* min(per_page, 100), page, order, orderby and the filters that are truthy.
\* HTTPS edition: get_site_id, validate_positive_int on per_page and page; the
\* query carries per_page as given, page, and status if truthy.
wp_list_posts_pre(ed, cl, a) ==
    LET r == get_site_id(cl, a.site)
        v == validate_positive_int(ed, a.per_page, "per_page")
    IN  IF ~r.ok THEN Pre(Resolution(r), r.err, NoResult, cl)
        ELSE IF ed = "https" /\ ~v.ok THEN Pre(Resolution(r), v.err, NoResult, cl)
        ELSE Pre(Resolution(r), NoMsg, NoResult, cl)

wp_list_posts_body(ed, a, k, got, o) ==
    IF k = 0
    THEN IF ed = "stdio"
         THEN SendWith("GET", Endpoint("/posts", {}),
                       Query({Min(a.per_page, MaxPerPage)}, {1}, {"desc"}, {"date"},
                             IfTruthy(a.search), IfTruthy(a.status), {}))
         ELSE SendWith("GET", Endpoint("/posts", {}),
                       Query({a.per_page}, {1}, {}, {}, {}, IfTruthy(a.status), {}))
    ELSE IF ~got.ok THEN Fail(got.err)
    ELSE IF ed = "stdio" THEN Formatted(format_response(ed, "payload", got.value))
    ELSE LET posts == response_json(got.value)
         IN  IF ~posts.ok THEN Fail(posts.err)
             ELSE Formatted(format_response(ed, "success", posts.value))

\* wp_list_media of additional_wordpress_tools.py
wp_list_media_body(ed, a, k, got, o) ==
    IF k = 0
    THEN IF client_has_get(ed)
         THEN SendWith("GET", Endpoint("/media", {}),
                       Query({Min(a.per_page, MaxPerPage)}, {1}, {"desc"}, {"date"},
                             IfTruthy(a.search), {}, {}))
         ELSE Fail(NoGetAttribute)
    ELSE IF ~got.ok THEN Fail(got.err)
    ELSE Formatted(format_response(ed, "success", got.value))

\* wp_search_content that gives what it has found when a later search fails
wp_search_content_body_partial(ed, a, k, got, o) ==
    IF k = 0
    THEN IF client_has_get(ed)
         THEN SendWith("GET", Endpoint("/posts", {}),
                       Query({a.per_page}, {}, {}, {}, a.search, {}, {}))
         ELSE Fail(NoGetAttribute)
    ELSE IF ~got.ok
    THEN IF k = 1 THEN Fail(got.err)
         ELSE Return(Result("string", "none", NoMsg, Payload("partial", "results")))
    ELSE IF k = 1
    THEN SendWith("GET", Endpoint("/posts", {}),
                  Query({a.per_page}, {}, {}, {}, a.search, {}, {"page"}))
    ELSE IF k = 2
    THEN SendWith("GET", Endpoint("/media", {}),
                  Query({a.per_page}, {}, {}, {}, a.search, {}, {}))
    ELSE Formatted(format_response(ed, "none", got.value))

\* wp_search_content of additional_wordpress_tools.py with type "any": posts,
\* pages, media in turn, each with per_page as given
wp_search_content_body(ed, a, k, got, o) ==
    IF k = 0
    THEN IF client_has_get(ed)
         THEN SendWith("GET", Endpoint("/posts", {}),
                       Query({a.per_page}, {}, {}, {}, a.search, {}, {}))
         ELSE Fail(NoGetAttribute)
    ELSE IF ~got.ok THEN Fail(got.err)
    ELSE IF k = 1
    THEN SendWith("GET", Endpoint("/posts", {}),
                  Query({a.per_page}, {}, {}, {}, a.search, {}, {"page"}))
    ELSE IF k = 2
    THEN SendWith("GET", Endpoint("/media", {}),
                  Query({a.per_page}, {}, {}, {}, a.search, {}, {}))
    ELSE Formatted(format_response(ed, "none", got.value))

\* wp_create_post.  stdio edition: title and status always, content if truthy.
\* HTTPS edition: title, content and status always.
wp_create_post_body(ed, a, k, got, o) ==
    IF k = 0
    THEN IF ed = "stdio"
         THEN SendWith("POST", Endpoint("/posts", {}),
                       JsonBody(a.title, IfTruthy(a.content), {"draft"}))
         ELSE SendWith("POST", Endpoint("/posts", {}),
                       JsonBody(a.title, a.content, {"draft"}))
    ELSE IF ~got.ok THEN Fail(got.err)
    ELSE IF ed = "stdio" THEN Formatted(format_response(ed, "payload", got.value))
    ELSE LET post == response_json(got.value)
         IN  IF ~post.ok THEN Fail(post.err)
             ELSE Formatted(format_response(ed, "success", post.value))

\* wp_update_post: get_site_id, validate_positive_int(post_id), the fields that
\* are not None; the stdio edition alone raises when there is no field
wp_update_post_pre(ed, cl, a) ==
    LET r == get_site_id(cl, a.site)
        v == validate_positive_int(ed, Val(a.id), "post_id")
    IN  IF ~r.ok THEN Pre(Resolution(r), r.err, NoResult, cl)
        ELSE IF ~v.ok THEN Pre(Resolution(r), v.err, NoResult, cl)
        ELSE IF ed = "stdio" /\ JsonBody(IfNotNone(a.title), IfNotNone(a.content), {}) = NoParams
        THEN Pre(Resolution(r), NoFieldsToUpdate, NoResult, cl)
        ELSE Pre(Resolution(r), NoMsg, NoResult, cl)

wp_update_post_body(ed, a, k, got, o) ==
    IF k = 0
    THEN SendWith(IF ed = "stdio" THEN "POST" ELSE "PUT",
                  Endpoint("/posts/{post_id}", a.id),
                  JsonBody(IfNotNone(a.title), IfNotNone(a.content), {}))
    ELSE IF ~got.ok THEN Fail(got.err)
    ELSE IF ed = "stdio" THEN Formatted(format_response(ed, "payload", got.value))
    ELSE LET post == response_json(got.value)
         IN  IF ~post.ok THEN Fail(post.err)
             ELSE Formatted(format_response(ed, "success", post.value))

\* wp_update_comment of additional_wordpress_tools.py: no validation of id, the
\* fields that are truthy, no check that there is one
wp_update_comment_body(ed, a, k, got, o) ==
    IF k = 0
    THEN IF client_has_get(ed)
         THEN SendWith("PUT", Endpoint("/comments/{id}", a.id),
                       JsonBody({}, IfTruthy(a.content), {}))
         ELSE Fail(NoGetAttribute)
    ELSE IF ~got.ok THEN Fail(got.err)
    ELSE Formatted(format_response(ed, "none", got.value))

Prefix(ed, cl, c) ==
    CASE c.op = "wp_get_post" -> wp_get_post_pre(ed, cl, c.args)
      [] c.op = "wp_get_application_passwords" ->
            wp_get_application_passwords_pre(ed, cl, c.args)
      [] c.op = "wp_switch_auth_method" -> wp_switch_auth_method_pre(ed, cl, c.args)
      [] c.op = "wp_list_posts" -> wp_list_posts_pre(ed, cl, c.args)
      [] c.op = "wp_update_post" -> wp_update_post_pre(ed, cl, c.args)
      [] OTHER -> resolve_only(cl, c.args)

Body(ed, c, k, got, o) ==
    CASE c.op = "wp_get_post" -> wp_get_post_body(ed, c.args, k, got, o)
      [] c.op = "wp_get_comment" -> wp_get_comment_body(ed, c.args, k, got, o)
      [] c.op = "wp_get_application_passwords" ->
            wp_get_application_passwords_body(ed, c.args, k, got, o)
      [] c.op = "wp_get_auth_status" -> wp_get_auth_status_body(ed, c.args, k, got, o)
      [] c.op = "wp_switch_auth_method" ->
            wp_switch_auth_method_body(ed, c.args, k, got, o)
      [] c.op = "wp_get_site_health" -> wp_get_site_health_body(ed, c.args, k, got, o)
      [] c.op = "wp_get_plugins" -> wp_get_plugins_body(ed, c.args, k, got, o)
      [] c.op = "wp_list_posts" -> wp_list_posts_body(ed, c.args, k, got, o)
      [] c.op = "wp_list_media" -> wp_list_media_body(ed, c.args, k, got, o)
      [] c.op = "wp_search_content" -> wp_search_content_body(ed, c.args, k, got, o)
      [] c.op = "wp_create_post" -> wp_create_post_body(ed, c.args, k, got, o)
      [] c.op = "wp_update_post" -> wp_update_post_body(ed, c.args, k, got, o)
      [] c.op = "wp_update_comment" -> wp_update_comment_body(ed, c.args, k, got, o)

-----------------------------------------------------------------------------
(* Inputs *)

SeqsUpTo(S, n) == UNION {[1..k -> S] : k \in 0..n}

FileUsername == "admin"
FileSecret == "secret-0"
NewUsername == "editor"
NewSecret == "secret-1"

\* One element of "sites" in mcp-wordpress.config.json.  auth_method {} is an
\* entry without WORDPRESS_AUTH_METHOD; complete = FALSE is an entry that lacks
\* one of the required keys.
Entries ==
    [id : SiteIds, name : Names, site_url : Urls, username : {FileUsername},
     app_password : {FileSecret}, auth_method : {{}, {"basic-auth"}, {"bogus"}},
     complete : BOOLEAN]

ConfigFiles ==
    {[sites |-> <<>>, exists |-> FALSE, parses |-> FALSE],
     [sites |-> <<>>, exists |-> TRUE, parses |-> FALSE]} \cup
    {[sites |-> ss, exists |-> TRUE, parses |-> TRUE] : ss \in SeqsUpTo(Entries, MaxSites)}

SiteArgs == {{}, {""}} \cup {{s} : s \in SiteIds \cup {UnknownSiteId}}
IdArgs == {{i} : i \in (0 - 1)..MaxId}
MethodArgs == SwitchMethods \cup {"bogus"}
\* page sizes a caller asks for: below the cap, the cap, above the cap
PageSizes == {5, MaxPerPage, 500}
\* the optional filters (search, status) of a list call
FilterArgs == {<<{}, {}>>, <<{"term"}, {}>>, <<{""}, {}>>, <<{}, {"draft"}>>}
\* the optional fields (title, content) of an update call
FieldArgs == {<<{}, {}>>, <<{"T"}, {}>>, <<{}, {""}>>}
ContentArgs == {{}, {""}, {"text"}}

-----------------------------------------------------------------------------
(* The state machine *)

Init ==
    /\ edition \in {"stdio", "https"}
    /\ \E f \in ConfigFiles :
          /\ clients = load_config(f).clients
          /\ load_status = load_config(f).status
    /\ workers = {"p1"}
    /\ pc = [p \in Procs |-> "idle"]
    /\ call = [p \in Procs |-> NoCall]
    /\ resolved = [p \in Procs |-> NotResolved]
    /\ session = [p \in Procs |-> "none"]
    /\ closes = [p \in Procs |-> 0]
    /\ client = [p \in Procs |-> NoClient]
    /\ reqs = [p \in Procs |-> <<>>]
    /\ last_resp = [p \in Procs |-> NoResponse]
    /\ result = [p \in Procs |-> NoResult]

Req(method, endpoint, site, auth, pr) ==
    [site |-> site, endpoint |-> endpoint, auth |-> auth, method |-> method,
     params |-> pr]

Outcome(step) ==
    IF step.do = "return" THEN step.result ELSE HandlerBoundary(step.err)

NoGot == OkPayload(NoPayload)

\* A handler runs from its call to its first suspension point: the part
\* before `async with`, get_client, and the body up to the first request
Start(p, c) ==
    /\ p \in workers
    /\ pc[p] = "idle"
    /\ LET pre == Prefix(edition, clients, c)
           gc == get_client(edition, pre.clients, pre.resolved.value)
           step == Body(edition, c, 0, NoGot, NoResponse)
       IN  /\ clients' = pre.clients
           /\ call' = [call EXCEPT ![p] = c]
           /\ resolved' = [resolved EXCEPT ![p] = pre.resolved]
           /\ last_resp' = [last_resp EXCEPT ![p] = NoResponse]
           /\ IF pre.err # NoMsg \/ pre.early # NoResult \/ ~gc.ok
              THEN /\ result' = [result EXCEPT ![p] =
                            IF pre.err # NoMsg THEN HandlerBoundary(pre.err)
                            ELSE IF pre.early # NoResult THEN pre.early
                            ELSE HandlerBoundary(gc.err)]
                   /\ pc' = [pc EXCEPT ![p] = "done"]
                   /\ UNCHANGED <<session, closes, client, reqs>>
              ELSE /\ client' = [client EXCEPT ![p] = gc.value]
                   /\ IF step.do = "send"
                      THEN /\ session' = [session EXCEPT ![p] = aenter(session[p])]
                           /\ reqs' = [reqs EXCEPT ![p] =
                                  <<Req(step.method, step.endpoint, gc.value.config_key,
                                        get_auth(edition, pre.clients, gc.value),
                                        step.params)>>]
                           /\ pc' = [pc EXCEPT ![p] = "await"]
                           /\ UNCHANGED <<closes, result>>
                      ELSE /\ session' = [session EXCEPT ![p] =
                                  aexit(aenter(session[p]), step.do = "raise")]
                           /\ closes' = [closes EXCEPT ![p] =
                                  IF session'[p] = "closed" THEN closes[p] + 1
                                  ELSE closes[p]]
                           /\ result' = [result EXCEPT ![p] = Outcome(step)]
                           /\ pc' = [pc EXCEPT ![p] = "done"]
                           /\ UNCHANGED reqs
    /\ UNCHANGED <<edition, load_status, workers>>

\* The request a handler is suspended in completes with outcome o; the handler
\* runs on to its next request or to its end
Resume(p, o) ==
    /\ pc[p] = "await"
    /\ LET sent == reqs[p][Len(reqs[p])]
           got == request(edition, client[p], sent.endpoint, o)
           step == Body(edition, call[p], Len(reqs[p]), got, o)
       IN  /\ last_resp' = [last_resp EXCEPT ![p] = o]
           /\ IF step.do = "send"
              THEN /\ reqs' = [reqs EXCEPT ![p] =
                          Append(reqs[p], Req(step.method, step.endpoint,
                                              client[p].config_key,
                                              get_auth(edition, clients, client[p]),
                                              step.params))]
                   /\ UNCHANGED <<pc, session, closes, result>>
              ELSE /\ session' = [session EXCEPT ![p] =
                          aexit(session[p], step.do = "raise")]
                   /\ closes' = [closes EXCEPT ![p] =
                          IF session'[p] = "closed" THEN closes[p] + 1 ELSE closes[p]]
                   /\ result' = [result EXCEPT ![p] = Outcome(step)]
                   /\ pc' = [pc EXCEPT ![p] = "done"]
                   /\ UNCHANGED reqs
    /\ UNCHANGED <<edition, clients, load_status, workers, call, resolved, client>>

wp_get_post(p) ==
    \E s \in SiteArgs, i \in IdArgs :
        Start(p, Call("wp_get_post", Args(s, i, "", "", "")))

wp_get_comment(p) ==
    \E s \in SiteArgs, i \in IdArgs :
        Start(p, Call("wp_get_comment", Args(s, i, "", "", "")))

wp_get_application_passwords(p) ==
    \E s \in SiteArgs, i \in IdArgs \cup {{}} :
        /\ edition = "https" => i = {}
        /\ Start(p, Call("wp_get_application_passwords", Args(s, i, "", "", "")))

wp_get_auth_status(p) ==
    \E s \in SiteArgs : Start(p, Call("wp_get_auth_status", Args(s, {}, "", "", "")))

wp_switch_auth_method(p) ==
    \E s \in SiteArgs, m \in MethodArgs :
        Start(p, Call("wp_switch_auth_method",
                      IF edition = "stdio" THEN Args(s, {}, m, NewUsername, NewSecret)
                      ELSE Args(s, {}, m, "", "")))

wp_get_site_health(p) ==
    \E s \in SiteArgs : Start(p, Call("wp_get_site_health", Args(s, {}, "", "", "")))

wp_get_plugins(p) ==
    \E s \in SiteArgs : Start(p, Call("wp_get_plugins", Args(s, {}, "", "", "")))

wp_list_posts(p) ==
    \E s \in SiteArgs, n \in PageSizes, f \in FilterArgs :
        /\ edition = "https" => f[1] = {}
        /\ Start(p, Call("wp_list_posts", ListArgs(s, n, f[1], f[2])))

wp_list_media(p) ==
    \E s \in SiteArgs, n \in PageSizes, f \in FilterArgs :
        /\ f[2] = {}
        /\ Start(p, Call("wp_list_media", ListArgs(s, n, f[1], f[2])))

wp_search_content(p) ==
    \E s \in SiteArgs, n \in PageSizes :
        Start(p, Call("wp_search_content", ListArgs(s, n, {"term"}, {})))

wp_create_post(p) ==
    \E s \in SiteArgs, c \in ContentArgs :
        /\ edition = "https" => c # {}
        /\ Start(p, Call("wp_create_post", PostArgs(s, {}, {"T"}, c)))

wp_update_post(p) ==
    \E s \in SiteArgs, i \in IdArgs, f \in FieldArgs :
        Start(p, Call("wp_update_post", PostArgs(s, i, f[1], f[2])))

wp_update_comment(p) ==
    \E s \in SiteArgs, i \in IdArgs, f \in FieldArgs :
        /\ f[1] = {}
        /\ Start(p, Call("wp_update_comment", PostArgs(s, i, f[1], f[2])))

\* The remote site answers
HttpAnswer(p) == \E r \in Responses : Resume(p, r)
\* DNS, connect or timeout failure of the request
TransportFailure(p) == \E c \in TransportCauses : Resume(p, TransportError(c))
\* The task running the handler is cancelled while it waits
Cancel(p) == Resume(p, Cancellation)

\* The caller takes the result; the invocation slot is free again
Collect(p) ==
    /\ pc[p] = "done"
    /\ pc' = [pc EXCEPT ![p] = "idle"]
    /\ call' = [call EXCEPT ![p] = NoCall]
    /\ resolved' = [resolved EXCEPT ![p] = NotResolved]
    /\ session' = [session EXCEPT ![p] = "none"]
    /\ closes' = [closes EXCEPT ![p] = 0]
    /\ client' = [client EXCEPT ![p] = NoClient]
    /\ reqs' = [reqs EXCEPT ![p] = <<>>]
    /\ last_resp' = [last_resp EXCEPT ![p] = NoResponse]
    /\ result' = [result EXCEPT ![p] = NoResult]
    /\ UNCHANGED <<edition, clients, load_status, workers>>

Next ==
    \E p \in Procs :
        \/ wp_get_post(p)
        \/ wp_get_comment(p)
        \/ wp_get_application_passwords(p)
        \/ wp_get_auth_status(p)
        \/ wp_switch_auth_method(p)
        \/ wp_get_site_health(p)
        \/ wp_get_plugins(p)
        \/ wp_list_posts(p)
        \/ wp_list_media(p)
        \/ wp_search_content(p)
        \/ wp_create_post(p)
        \/ wp_update_post(p)
        \/ wp_update_comment(p)
        \/ HttpAnswer(p)
        \/ TransportFailure(p)
        \/ Cancel(p)
        \/ Collect(p)

Spec == Init /\ [][Next]_vars

-----------------------------------------------------------------------------
(* Two invocations in progress at once.  The handlers are coroutines of one  *)
(* event loop: a handler runs without interruption from its call, or from    *)
(* the completion of its request, to its next await of a request.            *)

OtherUsername == "author"
OtherSecret == "secret-2"
SwitchValues == {<<NewUsername, NewSecret>>, <<OtherUsername, OtherSecret>>}

InitConcurrent ==
    /\ edition \in {"stdio", "https"}
    /\ \E f \in ConfigFiles :
          /\ f.sites # <<>>
          /\ \A i \in 1..Len(f.sites) : f.sites[i].complete /\ f.sites[i].auth_method = {}
          /\ clients = load_config(f).clients
          /\ load_status = load_config(f).status
    /\ workers = Procs
    /\ pc = [p \in Procs |-> "idle"]
    /\ call = [p \in Procs |-> NoCall]
    /\ resolved = [p \in Procs |-> NotResolved]
    /\ session = [p \in Procs |-> "none"]
    /\ closes = [p \in Procs |-> 0]
    /\ client = [p \in Procs |-> NoClient]
    /\ reqs = [p \in Procs |-> <<>>]
    /\ last_resp = [p \in Procs |-> NoResponse]
    /\ result = [p \in Procs |-> NoResult]

\* an operation that reads the credentials of a site: wp_get_post
ConcurrentRead(p) ==
    \E s \in SiteIds : Start(p, Call("wp_get_post", Args({s}, {1}, "", "", "")))

ConcurrentSwitch(p) ==
    \E s \in SiteIds, m \in SwitchMethods, v \in SwitchValues :
        Start(p, Call("wp_switch_auth_method",
                      IF edition = "stdio" THEN Args({s}, {}, m, v[1], v[2])
                      ELSE Args({s}, {}, m, "", "")))

ConcurrentAnswer(p) ==
    \E st \in {200, 401} : Resume(p, HttpResponse(st, TRUE, "object_msg", 0))

NextConcurrent ==
    \E p \in Procs :
        \/ ConcurrentRead(p)
        \/ ConcurrentSwitch(p)
        \/ ConcurrentAnswer(p)
        \/ Collect(p)

SpecConcurrent == InitConcurrent /\ [][NextConcurrent]_vars

-----------------------------------------------------------------------------
(* Two invocations at once whose requests all come to an end: the httpx      *)
(* clients are built with timeout=30.0, so a request that is sent is answered *)
(* or fails.  Nothing makes a caller call or collect.                         *)

LiveOutcomes ==
    {HttpResponse(200, TRUE, "object_msg", 0), HttpResponse(401, TRUE, "object_msg", 0),
     TransportError("timeout")}

LiveRead(p) ==
    \E s \in SiteIds : Start(p, Call("wp_get_post", Args({s}, {1}, "", "", "")))

LiveSwitch(p) ==
    \E s \in SiteIds :
        Start(p, Call("wp_switch_auth_method",
                      IF edition = "stdio"
                      THEN Args({s}, {}, "basic-auth", NewUsername, NewSecret)
                      ELSE Args({s}, {}, "basic-auth", "", "")))

LiveHealth(p) ==
    \E s \in SiteIds : Start(p, Call("wp_get_site_health", Args({s}, {}, "", "", "")))

\* a request that completes only while no other invocation has one in flight
LiveAnswer_exclusive(p) ==
    /\ \A q \in Procs \ {p} : pc[q] # "await"
    /\ \E o \in LiveOutcomes : Resume(p, o)

\* the request an invocation waits for is answered, or fails, or times out
LiveAnswer(p) == \E o \in LiveOutcomes : Resume(p, o)

NextLive ==
    \E p \in Procs :
        \/ LiveRead(p)
        \/ LiveSwitch(p)
        \/ LiveHealth(p)
        \/ LiveAnswer(p)
        \/ Collect(p)

SpecLive ==
    /\ InitConcurrent
    /\ [][NextLive]_vars
    /\ \A p \in Procs : WF_vars(LiveAnswer(p))

-----------------------------------------------------------------------------
(* Two invocations at once, every selector and every configuration file: a    *)
(* by-id read and a credential switch, each resolving its site.               *)

InitResolve ==
    /\ edition \in {"stdio", "https"}
    /\ \E f \in ConfigFiles :
          /\ clients = load_config(f).clients
          /\ load_status = load_config(f).status
    /\ workers = Procs
    /\ pc = [p \in Procs |-> "idle"]
    /\ call = [p \in Procs |-> NoCall]
    /\ resolved = [p \in Procs |-> NotResolved]
    /\ session = [p \in Procs |-> "none"]
    /\ closes = [p \in Procs |-> 0]
    /\ client = [p \in Procs |-> NoClient]
    /\ reqs = [p \in Procs |-> <<>>]
    /\ last_resp = [p \in Procs |-> NoResponse]
    /\ result = [p \in Procs |-> NoResult]

NextResolve ==
    \E p \in Procs :
        \/ wp_get_post(p)
        \/ wp_switch_auth_method(p)
        \/ ConcurrentAnswer(p)
        \/ Collect(p)

SpecResolve == InitResolve /\ [][NextResolve]_vars

-----------------------------------------------------------------------------
(* Properties *)

RegistryIds == {clients[i].cfg.id : i \in 1..Len(clients)}
Listed(m) == {m.available[i] : i \in 1..Len(m.available)}
InCall(p) == pc[p] # "idle"
ResolutionFailed(p) == InCall(p) /\ resolved[p].called /\ ~resolved[p].ok
ResolutionKinds == {"AmbiguousSite", "UnknownSite", "NoSitesConfigured"}

\* C1: with two or more sites configured, get_site_id without a selector fails
\* as AmbiguousSite, gives no site, and its message lists every configured id.
C1_AmbiguousSite ==
    \A p \in Procs :
        (InCall(p) /\ resolved[p].called /\ call[p].args.site = {} /\ Len(clients) >= 2)
        => /\ ~resolved[p].ok
           /\ resolved[p].value = ""
           /\ resolved[p].err.kind = "AmbiguousSite"
           /\ Listed(resolved[p].err) = RegistryIds
           /\ Len(resolved[p].err.available) = Len(clients)

C1_Witness ==
    \E p \in Procs :
        /\ pc[p] = "done" /\ resolved[p].called /\ call[p].args.site = {}
        /\ Len(clients) >= 2
        /\ result[p].status = "error" /\ result[p].message.kind = "AmbiguousSite"

\* C2: with exactly one site configured, get_site_id without a selector gives
\* that site, whatever its id is.
C2_SingleSite ==
    \A p \in Procs :
        (InCall(p) /\ resolved[p].called /\ call[p].args.site = {} /\ Len(clients) = 1)
        => /\ resolved[p].ok
           /\ resolved[p].value = clients[1].cfg.id

C2_Witness ==
    \E p \in Procs, s \in SiteIds :
        /\ pc[p] = "await" /\ call[p].args.site = {} /\ Len(clients) = 1
        /\ clients[1].cfg.id = s
        /\ resolved[p].value = s /\ reqs[p][1].site = s

\* C3 as stated: with an empty registry, get_site_id without a selector fails
\* as NoSitesConfigured and with any supplied selector string as UnknownSite.
C3_EmptyRegistry_AnySelector ==
    \A p \in Procs :
        (InCall(p) /\ resolved[p].called /\ Len(clients) = 0)
        => /\ ~resolved[p].ok
           /\ call[p].args.site = {} => resolved[p].err.kind = "NoSitesConfigured"
           /\ call[p].args.site # {} => resolved[p].err.kind = "UnknownSite"

\* C3 as amended: with an empty registry, get_site_id without a selector fails
\* as NoSitesConfigured and with any supplied non-empty selector string as
\* UnknownSite.
C3_EmptyRegistry ==
    \A p \in Procs :
        (InCall(p) /\ resolved[p].called /\ Len(clients) = 0)
        => /\ ~resolved[p].ok
           /\ call[p].args.site = {} => resolved[p].err.kind = "NoSitesConfigured"
           /\ (call[p].args.site # {} /\ call[p].args.site # {""})
                => resolved[p].err.kind = "UnknownSite"

C3_Witness ==
    \E p \in Procs :
        /\ pc[p] = "done" /\ Len(clients) = 0
        /\ call[p].args.site = {UnknownSiteId}
        /\ result[p].status = "error" /\ result[p].message.kind = "UnknownSite"

C5_ResolutionFailureNoNetwork ==
    \A p \in Procs :
        ResolutionFailed(p)
        => /\ pc[p] = "done"
           /\ result[p] = ErrorEnvelope(resolved[p].err)
           /\ resolved[p].err.kind \in ResolutionKinds
           /\ session[p] = "none" /\ closes[p] = 0
           /\ client[p] = NoClient
           /\ reqs[p] = <<>>

C5_Witness ==
    \E p \in Procs :
        /\ ResolutionFailed(p) /\ Len(clients) = 2 /\ call[p].args.site = {}
        /\ call[p].op = "wp_get_site_health"
        /\ result[p].status = "error" /\ reqs[p] = <<>>

\* C6: every operation that takes a resource identifier, called with an
\* identifier that is zero or negative, returns the error envelope with an
\* InvalidArgument message (when the site resolves) and sends no request.
IdOps == {"wp_get_post", "wp_get_comment", "wp_get_application_passwords"}
NonPositiveId(p) ==
    /\ InCall(p) /\ call[p].op \in IdOps
    /\ call[p].args.id # {} /\ \A i \in call[p].args.id : i <= 0
C6_NonPositiveIdRejected ==
    \A p \in Procs :
        NonPositiveId(p)
        => /\ pc[p] = "done"
           /\ result[p].status = "error"
           /\ resolved[p].ok => result[p].message.kind = "InvalidArgument"
           /\ reqs[p] = <<>>

\* C7: every operation returns a string, and whenever validation, site
\* resolution, a classified remote error or a transport failure occurred in it
\* the string is the error envelope (cancellation of the task left aside).
FailureOccurred(p) ==
    \/ ResolutionFailed(p)
    \/ last_resp[p].t = "transport"
    \/ last_resp[p].t = "http" /\ ~Is2xx(last_resp[p].status)
C7_UniformErrorEnvelope ==
    \A p \in Procs :
        (pc[p] = "done" /\ last_resp[p].t # "cancel")
        => /\ result[p].ret = "string"
           /\ FailureOccurred(p)
                => (result[p].status = "error" /\ result[p].message # NoMsg)

\* C8: a client opened by an operation is released exactly once by the time
\* the operation returns, on every exit path; while the operation is suspended
\* in a request the session is open and not yet released; no session is open
\* once the operation has returned.
C8_ScopedRelease ==
    \A p \in Procs :
        /\ pc[p] = "await" => (session[p] = "open" /\ closes[p] = 0)
        /\ pc[p] = "done" =>
              /\ session[p] # "open"
              /\ client[p] # NoClient => (session[p] = "closed" /\ closes[p] = 1)
              /\ client[p] = NoClient => (session[p] = "none" /\ closes[p] = 0)
        /\ pc[p] = "idle" => session[p] = "none"

\* an exception raised between two requests (user["id"] on a body without id)
\* and a cancellation, each leaving the session closed once
C8_Witness ==
    \E p \in Procs :
        /\ pc[p] = "done" /\ closes[p] = 1 /\ session[p] = "closed"
        /\ \/ result[p].message.kind = "KeyError" /\ Len(reqs[p]) = 1
           \/ result[p].ret = "raised" /\ Len(reqs[p]) = 2

\* C9: the client classifies every non-2xx response into one kind: 401 as
\* AuthenticationFailed, 403 as PermissionDenied, 404 as ResourceNotFound with
\* the attempted path, any other as RemoteAPIError with the status and the
\* remote message when the body has one.
ClassifiedAs(m, o, sent) ==
    CASE o.status = 401 -> m.kind = "AuthenticationFailed"
      [] o.status = 403 -> m.kind = "PermissionDenied"
      [] o.status = 404 -> m.kind = "ResourceNotFound" /\ m.endpoint = sent.endpoint
      [] OTHER -> /\ m.kind = "RemoteAPIError"
                  /\ m.status = o.status
                  /\ o.body = "object_msg" => m.detail = "remote message"
C9_StatusClassification ==
    \A p \in Procs :
        (pc[p] = "done" /\ last_resp[p].t = "http" /\ ~Is2xx(last_resp[p].status)
           /\ result[p].status = "error")
        => ClassifiedAs(result[p].message, last_resp[p], reqs[p][Len(reqs[p])])

\* C10 (stdio edition): a transport failure is reported as TransportFailure
\* with its cause, a response that came with a status code is never reported
\* as TransportFailure, a transport failure never under a status kind.
StatusKinds == {"AuthenticationFailed", "PermissionDenied", "ResourceNotFound",
                "RemoteAPIError"}
C10_TransportSeparate ==
    \A p \in Procs :
        (edition = "stdio" /\ pc[p] = "done" /\ result[p].message # NoMsg)
        => /\ last_resp[p].t = "transport" =>
                 /\ result[p].message.kind = "TransportFailure"
                 /\ result[p].message.detail = last_resp[p].cause
                 /\ result[p].message.kind \notin StatusKinds
           /\ last_resp[p].t = "http" => result[p].message.kind # "TransportFailure"

\* C11: no request of a list or search operation carries a page size above
\* 100; a requested page size from 1 to 100 is carried as it is; a page size
\* above the cap gives no error of its own.
ListOps == {"wp_list_posts", "wp_list_media", "wp_search_content"}
C11_PageSizeClamped ==
    \A p \in Procs :
        (InCall(p) /\ call[p].op \in ListOps)
        => /\ \A i \in 1..Len(reqs[p]) :
                 \A n \in reqs[p][i].params.per_page :
                     /\ n <= 100
                     /\ (call[p].args.per_page >= 1 /\ call[p].args.per_page <= 100)
                           => n = call[p].args.per_page
           /\ (pc[p] = "done" /\ reqs[p] = <<>> /\ resolved[p].ok)
                 => result[p].message.kind # "InvalidArgument"

\* C12: a filter or field whose parameter is Optional and that the caller did
\* not supply (None) is not a key of the query or body of any request of the
\* operation: neither with a null nor with an empty string.  (status of
\* wp_create_post is a str parameter with the default "draft", not an Optional.)
OptionalFieldOps == {"wp_list_posts", "wp_list_media", "wp_create_post",
                     "wp_update_post", "wp_update_comment"}
SimpleOps == {"wp_get_post", "wp_get_comment", "wp_list_posts", "wp_list_media",
              "wp_create_post", "wp_update_post", "wp_update_comment"}
C13_ExactlyOneRequest ==
    \A p \in Procs :
        (InCall(p) /\ call[p].op \in SimpleOps)
        => /\ Len(reqs[p]) <= 1
           /\ (pc[p] = "done" /\ resolved[p].ok
                 /\ result[p].message.kind # "InvalidArgument")
                 => Len(reqs[p]) = 1

\* C14: with the single site "blog" configured, a listing called without site
\* and without filters sends exactly one request, a GET to the base path of the
\* resource, whose query has the paging and ordering parameters and no filter.
BasePath(op) == IF op = "wp_list_posts" THEN "/posts" ELSE "/media"
C14_BlogListing ==
    \A p \in Procs :
        (/\ pc[p] \in {"await", "done"}
         /\ call[p].op \in {"wp_list_posts", "wp_list_media"}
         /\ KeySet(clients) = {"blog"}
         /\ call[p].args.site = {} /\ call[p].args.search = {}
         /\ call[p].args.status = {})
        => /\ Len(reqs[p]) = 1
           /\ reqs[p][1].method = "GET"
           /\ reqs[p][1].site = "blog"
           /\ reqs[p][1].endpoint = Endpoint(BasePath(call[p].op), {})
           /\ reqs[p][1].params.per_page # {} /\ reqs[p][1].params.page # {}
           /\ reqs[p][1].params.search = {} /\ reqs[p][1].params.status = {}
           /\ reqs[p][1].params.title = {} /\ reqs[p][1].params.content = {}
           /\ reqs[p][1].params.post_type = {}

\* C15: an operation whose request was answered 2xx returns output that is not
\* the error envelope and that holds the decoded body: the JSON value when the
\* content type is JSON, the text wrapped as {content: text} otherwise.
Decoded(o) == Payload(IF o.ctype_json THEN "json" ELSE "content", o.body)
C15_SuccessShape ==
    \A p \in Procs :
        (pc[p] = "done" /\ call[p].op \in SimpleOps
           /\ last_resp[p].t = "http" /\ Is2xx(last_resp[p].status))
        => /\ result[p].ret = "string"
           /\ result[p].status # "error"
           /\ result[p].data = Decoded(last_resp[p])

\* C16: when a request of a composite operation fails, the operation ends at
\* once with the error envelope, which holds nothing of what the earlier
\* requests gave, and sends no further request: a composite operation waits in
\* its second or third request only after the one before was answered 2xx.
CompositeOps == {"wp_search_content", "wp_get_site_health",
                 "wp_get_application_passwords"}
SubRequestFailed(p) ==
    \/ last_resp[p].t = "transport"
    \/ last_resp[p].t = "http" /\ ~Is2xx(last_resp[p].status)
C16_AllOrNothing ==
    \A p \in Procs :
        (InCall(p) /\ call[p].op \in CompositeOps)
        => /\ SubRequestFailed(p)
                => /\ pc[p] = "done"
                   /\ result[p] = ErrorEnvelope(result[p].message)
                   /\ result[p].message # NoMsg
           /\ (pc[p] = "await" /\ Len(reqs[p]) >= 2)
                => (last_resp[p].t = "http" /\ Is2xx(last_resp[p].status))

\* the second of the three searches fails after the first was answered 2xx
C16_Witness ==
    \E p \in Procs :
        /\ call[p].op = "wp_search_content" /\ pc[p] = "done"
        /\ Len(reqs[p]) = 2 /\ SubRequestFailed(p)
        /\ result[p].status = "error" /\ result[p].data = NoPayload

\* C17: once a credential switch on site s has returned success, resolving s
\* gives a configuration with the auth method of the call and, in the stdio
\* edition, whose operation takes them, the username and secret of the call;
\* a step changes the configuration of no site but the one a switch starting
\* in that step resolved, and never the keys, id, name or base URL of any.
Switched(p) ==
    /\ pc[p] = "done" /\ call[p].op = "wp_switch_auth_method"
    /\ result[p].status = "success"
AfterSwitch(p) ==
    LET s == get_site_id(clients, {resolved[p].value})
        cfg == Lookup(clients, s.value)
    IN  /\ s.ok /\ s.value = resolved[p].value
        /\ cfg.id = resolved[p].value
        /\ cfg.auth_method = call[p].args.auth_method
        /\ edition = "stdio" => /\ cfg.username = call[p].args.username
                                /\ cfg.app_password = call[p].args.password
SwitchStarts(p, key) ==
    /\ pc[p] = "idle" /\ pc'[p] # "idle"
    /\ call'[p].op = "wp_switch_auth_method"
    /\ resolved'[p].ok /\ resolved'[p].value = key
OnlySwitchedSiteChanges ==
    /\ Len(clients') = Len(clients)
    /\ \A i \in 1..Len(clients) :
          /\ clients'[i].key = clients[i].key
          /\ clients'[i].cfg.id = clients[i].cfg.id
          /\ clients'[i].cfg.name = clients[i].cfg.name
          /\ clients'[i].cfg.site_url = clients[i].cfg.site_url
          /\ clients'[i] # clients[i] => \E p \in Procs : SwitchStarts(p, clients[i].key)
C17_SwitchRoundTrip ==
    /\ [](\A p \in Procs : Switched(p) => AfterSwitch(p))
    /\ [][OnlySwitchedSiteChanges]_vars

\* a switch on the second of two sites succeeded: that site has the new
\* username and secret, the first site those of the configuration file
C17_Witness ==
    \E p \in Procs :
        /\ Switched(p) /\ edition = "stdio" /\ Len(clients) = 2
        /\ resolved[p].value = clients[2].key
        /\ clients[2].cfg.username = NewUsername
        /\ clients[2].cfg.app_password = NewSecret
        /\ clients[1].cfg.username = FileUsername
        /\ clients[1].cfg.app_password = FileSecret

\* C18 (two invocations at once): the username and secret of every site in
\* the registry, of every request on the wire and of every client are those of
\* the configuration file or those of one switch call, never the username of
\* one and the secret of another; a step that changes a site's configuration
\* sets all the fields the switch starting in that step replaces.
CredentialPairs == {<<FileUsername, FileSecret>>} \cup SwitchValues
SwitchReplaces(p, old, new) ==
    IF edition = "stdio"
    THEN new = [old EXCEPT !.username = call'[p].args.username,
                           !.app_password = call'[p].args.password,
                           !.auth_method = call'[p].args.auth_method]
    ELSE new = [old EXCEPT !.auth_method = call'[p].args.auth_method]
AtomicReplace ==
    \A i \in 1..Len(clients) :
        clients'[i] # clients[i]
        => \E p \in Procs : /\ SwitchStarts(p, clients[i].key)
                            /\ SwitchReplaces(p, clients[i].cfg, clients'[i].cfg)
NoTornCredentials ==
    /\ \A i \in 1..Len(clients) :
          <<clients[i].cfg.username, clients[i].cfg.app_password>> \in CredentialPairs
    /\ \A p \in Procs :
          /\ \A i \in 1..Len(reqs[p]) : reqs[p][i].auth \in CredentialPairs
          /\ (client[p] # NoClient /\ edition = "https")
                => client[p].auth \in CredentialPairs
C18_AtomicSwitch ==
    /\ []NoTornCredentials
    /\ [][Len(clients') = Len(clients) /\ AtomicReplace]_vars

\* a read sends the new username and secret while the switch that stored them
\* is still waiting for the answer to its test request
C18_Witness ==
    \E p \in Procs, q \in Procs :
        /\ p # q /\ edition = "stdio"
        /\ call[p].op = "wp_switch_auth_method" /\ pc[p] = "await"
        /\ call[q].op = "wp_get_post" /\ pc[q] = "await"
        /\ reqs[q][1].site = reqs[p][1].site
        /\ reqs[q][1].auth = <<call[p].args.username, call[p].args.password>>
        /\ reqs[q][1].auth # <<FileUsername, FileSecret>>

\* C19: when the configuration file is absent or loading it fails, the
\* registry is empty afterwards, and a resolve without a selector fails as
\* NoSitesConfigured.
C19_LoadFailureEmptyRegistry ==
    load_status \in {"absent", "failed"}
    => /\ Len(clients) = 0
       /\ \A p \in Procs :
             (InCall(p) /\ resolved[p].called /\ call[p].args.site = {})
             => /\ ~resolved[p].ok
                /\ resolved[p].err.kind = "NoSitesConfigured"

\* C20: an update operation that resolves its site, is given a valid id and
\* none of its updatable fields ends with the error envelope whose message is
\* the InvalidArgument "no fields to update" message, and sends no request.
UpdateOps == {"wp_update_post", "wp_update_comment"}
NoFieldSupplied(p) == call[p].args.title = {} /\ call[p].args.content = {}
C20_NoFieldsToUpdate ==
    \A p \in Procs :
        (/\ InCall(p) /\ call[p].op \in UpdateOps
         /\ NoFieldSupplied(p) /\ resolved[p].ok
         /\ Val(call[p].args.id) >= 1)
        => /\ pc[p] = "done"
           /\ reqs[p] = <<>>
           /\ result[p].status = "error"
           /\ result[p].message = NoFieldsToUpdate

\* C21 (two invocations at once): two invocations that resolved with the same
\* selector hold equal results, the same site or the same failure with the
\* same listed ids, whatever was switched in between; and a step in which an
\* invocation resolves changes the registry only when it is a switch that
\* resolved its site and stores the new values.
SameResolution ==
    \A p \in Procs, q \in Procs :
        (/\ InCall(p) /\ InCall(q)
         /\ resolved[p].called /\ resolved[q].called
         /\ call[p].args.site = call[q].args.site)
        => resolved[p] = resolved[q]
ResolveLeavesRegistry ==
    \A p \in Procs :
        (/\ ~resolved[p].called /\ resolved'[p].called
         /\ (call'[p].op # "wp_switch_auth_method" \/ ~resolved'[p].ok))
        => clients' = clients
C21_ResolvePure ==
    /\ []SameResolution
    /\ [][ResolveLeavesRegistry]_vars

\* two invocations resolved the omitted selector to the same site, one before
\* and one after a switch changed that site's credentials
C21_Witness ==
    \E p \in Procs, q \in Procs :
        /\ p # q /\ pc[p] = "await" /\ pc[q] = "await"
        /\ call[p].op = "wp_get_post" /\ call[q].op = "wp_switch_auth_method"
        /\ call[p].args.site = {} /\ call[q].args.site = {}
        /\ resolved[p].ok /\ resolved[q] = resolved[p]
        /\ edition = "stdio"
        /\ reqs[p][1].auth = <<FileUsername, FileSecret>>
        /\ reqs[q][1].auth = <<NewUsername, NewSecret>>

\* C22: every request an invocation has sent goes to the site the invocation
\* resolved and carries the username and the secret of that site's
\* configuration, whatever the site's auth method is: the credentials on the
\* wire are a function of (username, secret) alone.
C22_BasicCredentials ==
    \A p \in Procs :
        \A i \in 1..Len(reqs[p]) :
            /\ resolved[p].ok
            /\ reqs[p][i].site = resolved[p].value
            /\ HasKey(clients, reqs[p][i].site)
            /\ reqs[p][i].auth = <<Lookup(clients, reqs[p][i].site).username,
                                  Lookup(clients, reqs[p][i].site).app_password>>
            /\ reqs[p][i].auth[1] # "" /\ reqs[p][i].auth[2] # ""

\* a request to a site configured with basic-auth carries the same pair as a
\* request to a site configured with an application password would
C22_Witness ==
    \E p \in Procs :
        /\ pc[p] = "await" /\ call[p].op = "wp_get_post"
        /\ Lookup(clients, reqs[p][1].site).auth_method = "basic-auth"
        /\ reqs[p][1].auth = <<FileUsername, FileSecret>>

\* C23 as stated: the requests of a composite operation follow the declared
\* order (site health: settings, users, posts; current-user application
\* passwords: the current-user lookup, then the password sub-resource), each
\* is sent only after the one before was answered 2xx, and the sub-resource
\* request uses the user id the lookup returned.
Paths(p) == [i \in 1..Len(reqs[p]) |-> reqs[p][i].endpoint.path]
IsPrefix(s, t) == Len(s) <= Len(t) /\ \A i \in 1..Len(s) : s[i] = t[i]
CurrentUserCall(p) ==
    call[p].op = "wp_get_application_passwords" /\ ~TruthyInt(call[p].args.id)
DeclaredOrder(op) ==
    IF op = "wp_get_site_health" THEN <<"/settings", "/users", "/posts">>
    ELSE <<"/users/me", "/users/{user_id}/application-passwords">>
AfterSuccessOnly(p) ==
    (pc[p] = "await" /\ Len(reqs[p]) >= 2)
    => last_resp[p].t = "http" /\ Is2xx(last_resp[p].status)
UsesReturnedId(p) ==
    (pc[p] = "await" /\ Len(reqs[p]) = 2 /\ call[p].op = "wp_get_application_passwords")
    => /\ last_resp[p].id >= 1
       /\ reqs[p][2].endpoint.id = {last_resp[p].id}
C23_DeclaredOrder_AllEditions ==
    \A p \in Procs :
        (InCall(p) /\ (call[p].op = "wp_get_site_health" \/ CurrentUserCall(p)))
        => /\ IsPrefix(Paths(p), DeclaredOrder(call[p].op))
           /\ AfterSuccessOnly(p)
           /\ UsesReturnedId(p)

\* C23 as amended: the same, where the current-user application-password
\* operation of the stdio edition has no lookup: it sends the one request
\* GET /users/me/application-passwords.
OrderOf(ed, op) ==
    IF ed = "stdio" /\ op = "wp_get_application_passwords"
    THEN <<"/users/me/application-passwords">>
    ELSE DeclaredOrder(op)
C23_DeclaredOrder ==
    \A p \in Procs :
        (InCall(p) /\ (call[p].op = "wp_get_site_health" \/ CurrentUserCall(p)))
        => /\ IsPrefix(Paths(p), OrderOf(edition, call[p].op))
           /\ AfterSuccessOnly(p)
           /\ UsesReturnedId(p)

C23_Witness ==
    \E p \in Procs :
        /\ edition = "https" /\ pc[p] = "await" /\ Len(reqs[p]) = 2
        /\ call[p].op = "wp_get_application_passwords"
        /\ Paths(p) = DeclaredOrder(call[p].op)
        /\ reqs[p][2].endpoint.id = {last_resp[p].id}

\* C24: a by-id operation called with a non-positive identifier and a site
\* selector that cannot be resolved ends with the InvalidArgument error
\* envelope, not with a site-resolution error.
ValidatedByIdOps == {"wp_get_post", "wp_update_post"}
C24_ValidationFirst ==
    \A p \in Procs :
        (/\ pc[p] = "done" /\ call[p].op \in ValidatedByIdOps
         /\ Val(call[p].args.id) <= 0
         /\ ~get_site_id(clients, call[p].args.site).ok)
        => /\ result[p].status = "error"
           /\ result[p].message.kind = "InvalidArgument"
           /\ result[p].message.kind \notin ResolutionKinds

\* C25: no step adds, removes or reorders a site of the registry, and a step
\* that changes any field of any site configuration is the start of a
\* credential switch: every other operation, and every later step of a
\* switch, leaves the registry as it is.
SwitchCalled(p) ==
    pc[p] = "idle" /\ pc'[p] # "idle" /\ call'[p].op = "wp_switch_auth_method"
RegistryFrame ==
    /\ Keys(clients') = Keys(clients)
    /\ clients' # clients => \E p \in Procs : SwitchCalled(p)
C25_RegistryFrame == [][RegistryFrame]_vars

\* an update of a post went through, with the credentials an earlier switch
\* stored, on a registry that still has its two sites
C25_Witness ==
    \E p \in Procs :
        /\ pc[p] = "done" /\ call[p].op = "wp_update_post"
        /\ result[p].status # "error" /\ Len(clients) = 2
        /\ Len(reqs[p]) = 1
        /\ reqs[p][1].auth = <<NewUsername, NewSecret>>

\* C26: a credential switch whose site cannot be resolved, or whose
\* auth_method is not one of the two supported values, ends at once with the
\* error envelope, changes no field of any site configuration and sends no
\* request.
SwitchRejected(p) ==
    /\ SwitchCalled(p)
    /\ \/ ~get_site_id(clients, call'[p].args.site).ok
       \/ call'[p].args.auth_method \notin SwitchMethods
RejectedSwitchChangesNothing ==
    \A p \in Procs :
        SwitchRejected(p)
        => /\ clients' = clients
           /\ reqs'[p] = <<>>
           /\ pc'[p] = "done"
           /\ result'[p].status = "error"
           /\ result'[p].message.kind \in ResolutionKinds \cup {"InvalidArgument"}
C26_RejectedSwitch == [][RejectedSwitchChangesNothing]_vars

\* a switch to an unsupported method on a resolvable site was rejected, and
\* the site still has the credentials of the configuration file
C26_Witness ==
    \E p \in Procs :
        /\ pc[p] = "done" /\ call[p].op = "wp_switch_auth_method"
        /\ call[p].args.auth_method \notin SwitchMethods
        /\ get_site_id(clients, call[p].args.site).ok
        /\ result[p].message = InvalidMethod /\ reqs[p] = <<>>
        /\ \A i \in 1..Len(clients) :
              /\ clients[i].cfg.username = FileUsername
              /\ clients[i].cfg.app_password = FileSecret
              /\ clients[i].cfg.auth_method \in AuthMethodValues

\* C27: in the stdio edition the verification request of a switch is sent
\* with the new username and secret, which are in the registry while it is
\* awaited; when it fails the operation ends with the error envelope and the
\* registry keeps the new username, secret and method; no step of a switch
\* after its start changes the registry, and the requests of every other
\* operation carry what the registry holds for their site.
StoredByCall(p) ==
    LET cfg == Lookup(clients, resolved[p].value)
    IN  /\ cfg.username = call[p].args.username
        /\ cfg.app_password = call[p].args.password
        /\ cfg.auth_method = call[p].args.auth_method
VerificationSent(p) ==
    /\ edition = "stdio" /\ call[p].op = "wp_switch_auth_method"
    /\ InCall(p) /\ Len(reqs[p]) = 1
StoredBeforeVerified ==
    \A p \in Procs :
        VerificationSent(p)
        => /\ StoredByCall(p)
           /\ reqs[p][1].auth = <<call[p].args.username, call[p].args.password>>
           /\ (pc[p] = "done" /\ ~Is2xx(last_resp[p].status))
                => result[p].status # "success"
NoRollback ==
    \A p \in Procs :
        (VerificationSent(p) /\ pc'[p] # pc[p]) => clients' = clients
LaterRequestsUseStored ==
    \A p \in Procs :
        (edition = "stdio" /\ call[p].op # "wp_switch_auth_method" /\ reqs[p] # <<>>)
        => reqs[p][Len(reqs[p])].auth =
              <<Lookup(clients, resolved[p].value).username,
                Lookup(clients, resolved[p].value).app_password>>
C27_StoredBeforeVerified ==
    /\ []StoredBeforeVerified
    /\ []LaterRequestsUseStored
    /\ [][NoRollback]_vars

\* the verification request was answered 401: the switch gave the error
\* envelope and the site has the new username and secret
C27_Witness ==
    \E p \in Procs :
        /\ VerificationSent(p) /\ pc[p] = "done"
        /\ last_resp[p].status = 401
        /\ result[p].status = "error"
        /\ result[p].message.kind = "AuthenticationFailed"
        /\ Lookup(clients, resolved[p].value).username = NewUsername
        /\ Lookup(clients, resolved[p].value).app_password = NewSecret

\* C28: get_site_id called with the selector "" gives what it gives without
\* a selector: the one configured site, NoSitesConfigured with no site,
\* AmbiguousSite with several; it never gives UnknownSite.
C28_EmptySelector ==
    \A p \in Procs :
        (InCall(p) /\ resolved[p].called /\ call[p].args.site = {""})
        => /\ Len(clients) = 1 => resolved[p].ok /\ resolved[p].value = clients[1].key
           /\ Len(clients) = 0 => ~resolved[p].ok /\ resolved[p].err.kind = "NoSitesConfigured"
           /\ Len(clients) >= 2 => /\ ~resolved[p].ok
                                   /\ resolved[p].err.kind = "AmbiguousSite"
                                   /\ Listed(resolved[p].err) = RegistryIds
           /\ resolved[p].err.kind # "UnknownSite"

C28_Witness ==
    \E p \in Procs :
        /\ pc[p] = "await" /\ call[p].args.site = {""}
        /\ Len(clients) = 1 /\ resolved[p].value = clients[1].key
        /\ reqs[p][1].site = clients[1].key

\* C29 (stdio edition): a list or create operation given an optional field as
\* the empty string sends its request without that field; an update operation
\* given the empty string as its only field sends its request with the field
\* set to the empty string and is not rejected as an update without fields.
FalsyDroppedByListAndCreate(p) ==
    /\ (call[p].op = "wp_list_posts" /\ call[p].args.search = {""})
         => reqs[p][1].params.search = {}
    /\ (call[p].op = "wp_create_post" /\ call[p].args.content = {""})
         => reqs[p][1].params.content = {}
OnlyEmptyField(p) ==
    /\ call[p].op = "wp_update_post"
    /\ call[p].args.title = {} /\ call[p].args.content = {""}
    /\ resolved[p].ok /\ Val(call[p].args.id) >= 1
C29_FieldInclusion ==
    \A p \in Procs :
        (edition = "stdio" /\ InCall(p))
        => /\ reqs[p] # <<>> => FalsyDroppedByListAndCreate(p)
           /\ OnlyEmptyField(p)
                => /\ Len(reqs[p]) = 1
                   /\ reqs[p][1].params.content = {""}
                   /\ reqs[p][1].params.title = {}
                   /\ result[p].message # NoFieldsToUpdate

C29_Witness ==
    \E p \in Procs :
        /\ edition = "stdio" /\ pc[p] = "done" /\ OnlyEmptyField(p)
        /\ reqs[p][1].params.content = {""}
        /\ last_resp[p].status = 200 /\ result[p].status # "error"

\* C30 (two invocations at once, every request answered or failed in the
\* end): an invocation that waits for a request ends in the end with a result
\* string, whatever the other invocation, a credential switch included, does
\* meanwhile; and an invocation is never in a state other than idle, waiting
\* for its own request, or ended.
Returned(p) == pc[p] = "done" /\ result[p].ret = "string"
NeverBlocked ==
    \A p \in Procs :
        /\ pc[p] \in {"idle", "await", "done"}
        /\ (pc[p] = "await") => ENABLED LiveAnswer(p)
        /\ (pc[p] = "done") => result[p].ret = "string"
C30_EventuallyReturns ==
    /\ \A p \in Procs : (pc[p] = "await") ~> Returned(p)
    /\ []NeverBlocked

\* a read that was sent with the credentials a switch had just stored
\* returned while that switch, on the same site, still waits for its answer
C30_Witness ==
    \E p \in Procs, q \in Procs :
        /\ p # q /\ Returned(p) /\ call[p].op = "wp_get_post"
        /\ Len(reqs[p]) = 1
        /\ reqs[p][1].auth = <<NewUsername, NewSecret>>
        /\ call[q].op = "wp_switch_auth_method" /\ pc[q] = "await"
        /\ resolved[q].value = resolved[p].value

====
